---- MODULE Spec2Model ----
(***************************************************************************)
(* Model of the threaded ADB tool (src/ADBTool_multithread.py): the UI     *)
(* thread (button handlers, the drain tick _check_queue, the progress tick *)
(* _update_progress, the synchronous run_screenshot) and the background    *)
(* workers (thread_target of run_single_adb_command and of                 *)
(* run_adb_command_device_info), sharing command_running and result_queue. *)
(***************************************************************************)
EXTENDS Integers, Sequences, FiniteSets, TLC

\* ---------------------------------------------------------------- bounds
\* number of invocations accepted in one run (worker ids 1..MaxSubmits)
MaxSubmits == 2
\* cap on progress_counter (seconds counted by _update_progress)
MaxProgress == 1
\* number of invocations accepted in one run of the fair specification
MaxLive == 1
\* number of lines of an output given to a formatter
MaxLines == 2
\* last value of the clock, in half seconds
MaxClock == 3

\* ------------------------------------------------------ program constants
\* process.communicate(timeout=300) in run_single_adb_command
CommandTimeout == 300
\* process.communicate(timeout=30) in run_adb_command_device_info
PropTimeout == 30
\* len(props) in run_adb_command_device_info
NumProps == 7
\* subprocess.run(...) without timeout= : the wait has no bound
NoTimeout == 0

Ids == 1..MaxSubmits

\* ------------------------------------------------------------- UI widgets
\* the buttons built by create_controls whose command= callback starts an
\* operation.  The attribute self.activity_button is assigned twice: the
\* Check Activity widget loses its name to the Start Package/Activity one.
Widgets ==
    {"device_info_button", "list_devices_button", "check_activity_widget",
     "activity_button", "scrcpy_button", "screenshot_button",
     "install_button", "search_button", "uninstall_button", "sideload_button",
     "storage_button", "push_button", "pull_button", "command_button",
     "text_button", "network_button", "shutdown_button", "recovery_button",
     "reboot_button", "back_button", "home_button", "apps_button",
     "vol_up_button", "power_button", "vol_down_button", "settings_button",
     "factory_button"}

\* button=None
None == "None"

\* the operations started through the command runner that the model
\* submits: List Devices, Check Activity, Cast Screen, Get Device Info
Ops == {"devices", "check_activity", "scrcpy", "device_info"}

\* the operations whose handler checks the user's entries before it calls
\* the runner
FormOps ==
    {"install", "search", "uninstall", "sideload", "storage", "push", "pull",
     "text", "command", "start_activity"}

\* the operations whose callback calls the runner with a fixed command and
\* a formatter that returns one of two fixed messages
KeyOps ==
    {"shutdown", "recovery", "reboot", "back", "home", "applications",
     "volume_up", "power", "volume_down", "settings", "factory_test"}

\* every operation that goes through run_single_adb_command
RunnerOps == (Ops \ {"device_info"}) \cup FormOps \cup KeyOps \cup {"network"}

\* the widget whose command= callback starts the operation
WidgetOf(op) ==
    CASE op = "devices"        -> "list_devices_button"
      [] op = "check_activity" -> "check_activity_widget"
      [] op = "scrcpy"         -> "scrcpy_button"
      [] op = "device_info"    -> "device_info_button"
      [] op = "install"        -> "install_button"
      [] op = "search"         -> "search_button"
      [] op = "uninstall"      -> "uninstall_button"
      [] op = "sideload"       -> "sideload_button"
      [] op = "storage"        -> "storage_button"
      [] op = "push"           -> "push_button"
      [] op = "pull"           -> "pull_button"
      [] op = "text"           -> "text_button"
      [] op = "command"        -> "command_button"
      [] op = "start_activity" -> "activity_button"
      [] op = "network"        -> "network_button"
      [] op = "shutdown"       -> "shutdown_button"
      [] op = "recovery"       -> "recovery_button"
      [] op = "reboot"         -> "reboot_button"
      [] op = "back"           -> "back_button"
      [] op = "home"           -> "home_button"
      [] op = "applications"   -> "apps_button"
      [] op = "volume_up"      -> "vol_up_button"
      [] op = "power"          -> "power_button"
      [] op = "volume_down"    -> "vol_down_button"
      [] op = "settings"       -> "settings_button"
      [] op = "factory_test"   -> "factory_button"

\* the button argument the callback passes to the runner. The attribute
\* self.activity_button is assigned twice in create_controls; when the
\* Check Activity lambda runs it names the Start Package/Activity widget.
\* Get Device Info is bound without arguments, so button=None.
ButtonArg(op) ==
    CASE op = "check_activity" -> "activity_button"
      [] op = "device_info"    -> None
      [] OTHER                 -> WidgetOf(op)

\* ------------------------------------------------------------------ texts
\* A text is a message plus the raw fragments appended to it and a number
\* (the seconds of "Still running... (Ns)").  A raw output is a sequence of
\* lines.
T(m) == [msg |-> m, raw |-> <<>>, n |-> 0]
TR(m, r) == [msg |-> m, raw |-> r, n |-> 0]
NoText == T("")

\* raw outputs an external process can produce (stdout + stderr)
RawTexts ==
    { <<"error: no devices/emulators found">>,
      <<"List of devices attached", "ABC123\tdevice">> }

\* the lines the outputs given to the formatters are made of
Lines ==
    {"error: no devices/emulators found",
     "List of devices attached",
     "ABC123\tdevice",
     "  mCurrentFocus=Window{u0 com.example/.Main}",
     "adb: error: failed to stat remote object",
     "Success",
     "Performing Streamed Install",
     "Error: Activity class does not exist",
     "",
     "package:com.example.app",
     "XYZ789\tno permissions; see [http://developer.android.com/tools/device/dev-options.html]",
     "/system/bin/sh: am: not found",
     "Failure [INSTALL_FAILED_ALREADY_EXISTS]"}

\* "no devices" in line.lower()
HasNoDevices(ln) == ln = "error: no devices/emulators found"
\* "device" in line
HasDevice(ln) ==
    ln \in {"error: no devices/emulators found", "List of devices attached",
            "ABC123\tdevice",
            "XYZ789\tno permissions; see [http://developer.android.com/tools/device/dev-options.html]"}
\* "mCurrentFocus" in line or "mFocusedApp" in line
HasFocus(ln) == ln = "  mCurrentFocus=Window{u0 com.example/.Main}"
\* "failed" in line.lower()
HasFailed(ln) ==
    ln \in {"adb: error: failed to stat remote object",
            "Failure [INSTALL_FAILED_ALREADY_EXISTS]"}
\* "error" in line.lower()
HasErrorLower(ln) ==
    ln \in {"error: no devices/emulators found",
            "adb: error: failed to stat remote object",
            "Error: Activity class does not exist"}
\* "Success" in line or "success" in line.lower()
HasSuccess(ln) == ln = "Success"
\* "Error" in line
HasError(ln) == ln = "Error: Activity class does not exist"
\* "not found" in line.lower()
HasNotFound(ln) == ln = "/system/bin/sh: am: not found"
\* ln.strip() is not empty
NotBlank(ln) == ln # ""

\* ln.replace("\tdevice", " -> Connected")
ReplaceTabDevice(ln) == IF ln = "ABC123\tdevice" THEN "ABC123 -> Connected" ELSE ln
\* ln.replace("package:", "")
ReplacePackage(ln) == IF ln = "package:com.example.app" THEN "com.example.app" ELSE ln
\* ln.strip()
Strip(ln) ==
    IF ln = "  mCurrentFocus=Window{u0 com.example/.Main}"
    THEN "mCurrentFocus=Window{u0 com.example/.Main}" ELSE ln

Tail1(s) == IF Len(s) = 0 THEN <<>> ELSE Tail(s)

\* [ln for ln in output.splitlines() if ln.strip()]
NonBlankLines(output) == SelectSeq(output, NotBlank)

\* the text every formatter but format_devices returns for "no devices"
NoDevicesText == T("No devices connected!")

\* a format_devices that reads the header with lines[0]
format_devices_indexed(output) ==
    IF Len(NonBlankLines(output)) = 0
    THEN [exc |-> "list index out of range"]
    ELSE T("No devices connected!\n\nCommand run: \"adb devices\"")

format_devices(output) ==
    LET lines == NonBlankLines(output) IN
    IF Len(lines) = 0 \/ ~(\E ln \in 1..Len(Tail1(lines)) : HasDevice(Tail1(lines)[ln]))
    THEN T("No devices connected!\n\nCommand run: \"adb devices\"")
    ELSE TR("\n\nCommand run: \"adb devices\"", [ln \in 1..Len(Tail1(lines)) |-> ReplaceTabDevice(Tail1(lines)[ln])])

format_install(output) ==
    IF (\E ln \in 1..Len(output) : HasSuccess(output[ln]))
    THEN T("Installation Successful!\n\nCommand run: \"adb install <APK_PATH>\"")
    ELSE IF (\E ln \in 1..Len(output) : HasNoDevices(output[ln])) THEN NoDevicesText
         ELSE TR("Installation Result:\n", output)

format_search(output) ==
    IF Len(NonBlankLines(output)) = 0 THEN T("No package found!")
    ELSE IF (\E ln \in 1..Len(output) : HasNoDevices(output[ln])) THEN NoDevicesText
         ELSE TR("\n\nCommand run: \"adb shell pm list packages | grep <PACKAGE_NAME>\"",
                 [ln \in 1..Len(NonBlankLines(output)) |-> ReplacePackage(NonBlankLines(output)[ln])])

format_uninstall(output) ==
    IF (\E ln \in 1..Len(output) : HasSuccess(output[ln]))
    THEN T("Uninstallation Successful!")
    ELSE IF (\E ln \in 1..Len(output) : HasNoDevices(output[ln])) THEN NoDevicesText
         ELSE TR("Uninstallation Result:\n", output)

format_sideload(output) ==
    IF (\E ln \in 1..Len(output) : HasFailed(output[ln]))
    THEN TR("Make sure the device is in sideload mode and try again.", output)
    ELSE TR("Sideloading Finished. (Check output below.)\n\n", output)

\* format_shutdown, format_recovery, format_reboot, format_back, format_home,
\* format_applications, format_volume_up, format_power, format_volume_down,
\* format_settings, format_factory_test, format_text: the fixed message of
\* the operation unless the output holds "no devices"
format_fixed(output, message) ==
    IF (\E ln \in 1..Len(output) : HasNoDevices(output[ln])) THEN NoDevicesText
    ELSE T(message)

\* the fixed message of each of these formatters
FixedMessage(op) ==
    CASE op = "shutdown"     -> "Shutdown initiated"
      [] op = "recovery"     -> "Recovery initiated"
      [] op = "reboot"       -> "Reboot initiated"
      [] op = "back"         -> "Back command executed"
      [] op = "home"         -> "Home command executed"
      [] op = "applications" -> "Applications command executed"
      [] op = "volume_up"    -> "Volume Up command executed"
      [] op = "power"        -> "Power (Lock/Unlock) command executed"
      [] op = "volume_down"  -> "Volume Down command executed"
      [] op = "settings"     -> "Settings command executed"
      [] op = "factory_test" -> "Factory Test command executed"
      [] op = "text"         -> "Text entered."

format_push(output) ==
    IF (\E ln \in 1..Len(output) : HasNoDevices(output[ln])) THEN NoDevicesText
    ELSE IF (\E ln \in 1..Len(output) : HasFailed(output[ln]))
         THEN TR("Push failed. Check the local and device paths.\n\n", output)
         ELSE TR("File pushed successfully:", output)

format_storage(output) ==
    IF (\E ln \in 1..Len(output) : HasNoDevices(output[ln])) THEN NoDevicesText
    ELSE TR("Device Storage:\n", output)

format_pull(output) ==
    IF (\E ln \in 1..Len(output) : HasNoDevices(output[ln])) THEN NoDevicesText
    ELSE IF (\E ln \in 1..Len(output) : HasFailed(output[ln]))
         THEN TR("Pull failed. Check the device and local paths.\n\n", output)
         ELSE TR("File pulled successfully:", output)

format_screenshot(output) ==
    IF (\E ln \in 1..Len(output) : HasNoDevices(output[ln])) THEN NoDevicesText
    ELSE IF (\E ln \in 1..Len(output) : HasFailed(output[ln]))
         THEN TR("Screenshot failed. Check the device state.\n\n", output)
         ELSE T("Screenshot saved on device under /sdcard/Pictures/Screenshot_*.png")

format_network(output) ==
    IF (\E ln \in 1..Len(output) : HasNoDevices(output[ln])) THEN NoDevicesText
    ELSE IF Len(NonBlankLines(output)) = 0
         THEN T("Network check returned no output. Device might be offline or command unsupported.")
         ELSE TR("Network configuration:\n", output)

format_activity(output) ==
    IF (\E ln \in 1..Len(output) : HasNoDevices(output[ln])) THEN NoDevicesText
    ELSE IF ~(\E ln \in 1..Len(output) : HasFocus(output[ln]))
         THEN TR("No current activity found. Output:\n", output)
         ELSE LET j == CHOOSE j \in 1..Len(output) :
                         HasFocus(output[j]) /\ \A h \in 1..(j-1) : ~HasFocus(output[h])
              IN TR("Current focus:", <<Strip(output[j])>>)

\* "ERROR" in output.lower() is never true: a lowered text has no capitals
format_scrcpy(output) == T("CASTING started in the BACKGROUND")

format_command(output) ==
    IF (\E ln \in 1..Len(output) : HasNoDevices(output[ln])) THEN NoDevicesText
    ELSE TR("", output)

format_start_activity(output) ==
    IF (\E ln \in 1..Len(output) : HasNoDevices(output[ln])) THEN NoDevicesText
    ELSE IF (\E ln \in 1..Len(output) : HasError(output[ln]) \/ HasNotFound(output[ln]))
         THEN TR("Failed to start activity. Check the package/activity name.\n\n", output)
         ELSE TR("Activity started (or adb returned output):\n", output)

\* the format_output_func the callback passes for the operation
FormatOutput(op, output) ==
    CASE op = "devices"        -> format_devices(output)
      [] op = "check_activity" -> format_activity(output)
      [] op = "scrcpy"         -> format_scrcpy(output)
      [] op = "install"        -> format_install(output)
      [] op = "search"         -> format_search(output)
      [] op = "uninstall"      -> format_uninstall(output)
      [] op = "sideload"       -> format_sideload(output)
      [] op = "storage"        -> format_storage(output)
      [] op = "push"           -> format_push(output)
      [] op = "pull"           -> format_pull(output)
      [] op = "network"        -> format_network(output)
      [] op = "command"        -> format_command(output)
      [] op = "start_activity" -> format_start_activity(output)
      [] op = "screenshot"     -> format_screenshot(output)
      [] op \in KeyOps \cup {"text"} -> format_fixed(output, FixedMessage(op))

\* ------------------------------------------------------------------ state
VARIABLES
    command_running,   \* self.command_running
    progress_counter,  \* self.progress_counter
    result_queue,      \* self.result_queue: sequence of [text, button, id]
    output_text,       \* self.output_text: sequence of texts inserted
    buttons,           \* state of each widget: "normal" or "disabled"
    workers,           \* the thread of each accepted invocation
    ui,                \* what the UI thread is doing
    nextId,            \* id of the next accepted invocation
    delivered,         \* history: invocations whose result _check_queue displayed
    clock,             \* datetime.now(), in half seconds
    screenshot_cmd,    \* the time stamp create_controls puts in screenshot_cmd
    messagebox,        \* the dialogs messagebox.showerror has shown
    after              \* the callbacks scheduled with self.root.after

\* the variables written by the start of the application and by the clock
session == <<clock, screenshot_cmd, messagebox, after>>

vars == <<command_running, progress_counter, result_queue, output_text,
          buttons, workers, ui, nextId, delivered, session>>

\* a thread that has not been created
NoWorker ==
    [pc |-> "none", op |-> "none", button |-> None, k |-> 0,
     timeout |-> NoTimeout, results |-> <<>>, output |-> <<>>,
     command |-> <<>>]

\* a thread that has ended
DoneWorker == [NoWorker EXCEPT !.pc = "done"]

\* the UI thread runs the Tk main loop unless a handler is blocked in it
MainLoop == [pc |-> "mainloop", timeout |-> NoTimeout]

\* the callbacks __init__ and create_controls schedule with self.root.after
Timers == {"_check_queue", "_update_progress"}

\* datetime.now().strftime("%Y%m%d%H%M%S"): the part of a second is dropped
Stamp(now) == now \div 2

Init ==
    /\ command_running = FALSE
    /\ progress_counter = 0
    /\ result_queue = <<>>
    /\ output_text = <<T("ADB Tool ready. Click 'List Devices' to begin.\n")>>
    /\ buttons = [w \in Widgets |-> "normal"]
    /\ workers = [i \in Ids |-> NoWorker]
    /\ ui = MainLoop
    /\ nextId = 1
    /\ delivered = {}
    /\ clock = 0
    /\ screenshot_cmd = Stamp(0)
    /\ messagebox = <<>>
    /\ after = Timers

\* a click reaches the callback only if the main loop is running and the
\* widget is not disabled
CanClick(w) == ui.pc = "mainloop" /\ buttons[w] = "normal"

\* button.config(state=...) ; nothing when button is None
Config(bs, button, st) ==
    IF button = None THEN bs ELSE [bs EXCEPT ![button] = st]

\* self._show_error(msg)
show_error(m) == <<TR("Error: ", <<m>>)>>

BusyMessage == "Another command is running. Please wait."

\* ---------------------------------------------------------------- commands
\* A command is the sequence of the pieces its f-string joins: the tool name,
\* the fixed text of the operation, then each parameter.
\* self.adb_path and self.scrcpy_path
adb_path == "/Users/patrickxu/Library/Android/sdk/platform-tools/adb"
scrcpy_path == "/Users/patrickxu/scrcpy-macos-aarch64-v3.3.1/scrcpy"

\* the command string of the callbacks that pass a literal to the runner
FixedCommand(op) ==
    CASE op = "devices"        -> <<"adb", "devices">>
      [] op = "check_activity" -> <<"adb", "shell dumpsys window | grep mCurrentFocus">>
      [] op = "scrcpy"         -> <<"scrcpy">>
      [] op = "network"        -> <<"adb", "shell ifconfig">>
      [] op = "shutdown"       -> <<"adb", "reboot -p">>
      [] op = "recovery"       -> <<"adb", "reboot recovery">>
      [] op = "reboot"         -> <<"adb", "reboot">>
      [] op = "back"           -> <<"adb", "shell input keyevent 4">>
      [] op = "home"           -> <<"adb", "shell input keyevent 3">>
      [] op = "applications"   -> <<"adb", "shell input keyevent 187">>
      [] op = "volume_up"      -> <<"adb", "shell input keyevent 24">>
      [] op = "power"          -> <<"adb", "shell input keyevent 26">>
      [] op = "volume_down"    -> <<"adb", "shell input keyevent 25">>
      [] op = "settings"       -> <<"adb", "shell am start -n com.android.settings/.Settings">>
      [] op = "factory_test"   -> <<"adb", "shell am start -n com.ubx.factorykit/.Framework.Framework">>

\* piece.replace("adb", self.adb_path): every occurrence of the three
\* letters is replaced, wherever it stands
ReplaceAdb(piece) ==
    CASE piece = "adb" -> adb_path
      [] piece = "com.adblock.app" ->
            "com./Users/patrickxu/Library/Android/sdk/platform-tools/adblock.app"
      [] OTHER -> piece

\* command.replace("adb", self.adb_path)
Replace(command) == [j \in DOMAIN command |-> ReplaceAdb(command[j])]

\* text.replace('"', '\\"'); of the texts entered here only one holds a quote
EscapeQuotes(text) ==
    IF text = "say \"hi\"" THEN "say \\\"hi\\\"" ELSE text

\* ------------------------------------------------- run_single_adb_command
\* the thread created by threading.Thread(target=thread_target).start()
NewWorker(op, button, command) ==
    [pc |-> "start", op |-> op, button |-> button, k |-> 0,
     timeout |-> NoTimeout, results |-> <<>>, output |-> <<>>,
     command |-> command]

\* a gate that is never shut
Busy_never == FALSE

\* the gate both submit functions open with: if self.command_running
Busy == command_running

\* run_single_adb_command(command, format_output_func, button) called by
\* the callback of operation op
run_single_adb_command(op, command) ==
    /\ op \in RunnerOps
    /\ CanClick(WidgetOf(op))
    /\ IF Busy
       THEN /\ output_text' = show_error(BusyMessage)
            /\ UNCHANGED <<command_running, progress_counter, result_queue,
                           buttons, workers, nextId>>
       ELSE /\ nextId <= MaxSubmits
            /\ command_running' = TRUE
            /\ progress_counter' = 0
            /\ output_text' = <<T("Running command... Please wait.\n")>>
            /\ buttons' = Config(buttons, ButtonArg(op), "disabled")
            /\ workers' = [workers EXCEPT ![nextId] = NewWorker(op, ButtonArg(op), command)]
            /\ nextId' = nextId + 1
            /\ UNCHANGED result_queue
    /\ UNCHANGED <<ui, delivered, session>>

\* run_adb_command_device_info(button=None): the display is overwritten
\* before the gate is tested
run_adb_command_device_info ==
    /\ CanClick("device_info_button")
    /\ IF Busy
       THEN /\ output_text' = show_error(BusyMessage)
            /\ UNCHANGED <<command_running, progress_counter, result_queue,
                           buttons, workers, nextId>>
       ELSE /\ nextId <= MaxSubmits
            /\ command_running' = TRUE
            /\ progress_counter' = 0
            /\ output_text' = <<T("Fetching device info... Please wait.\n")>>
            /\ buttons' = Config(buttons, ButtonArg("device_info"), "disabled")
            /\ workers' = [workers EXCEPT
                             ![nextId] = NewWorker("device_info", ButtonArg("device_info"), <<>>)]
            /\ nextId' = nextId + 1
            /\ UNCHANGED result_queue
    /\ UNCHANGED <<ui, delivered, session>>

\* ------------------------------------------------------- checked handlers
\* what the user has typed in an entry widget (entry.get()): a local path,
\* a package name or other text, a path on the device
PathEntries == {"", "  ", "/Users/u/Desktop/APP.APK", "/Users/u/Desktop/fw.zip"}
TextEntries == {"", "com.example.app", "example", "com.adblock.app"}
DevicePathEntries == {"", " /sdcard/Download/a.txt ", "/data/local/tmp"}

\* entry.get().strip() ; os.path.expanduser leaves these paths as they are
StripEntry(e) ==
    CASE e = "  " -> ""
      [] e = " /sdcard/Download/a.txt " -> "/sdcard/Download/a.txt"
      [] OTHER -> e

\* path.lower().endswith(".apk")
EndsWithApk(path) == path = "/Users/u/Desktop/APP.APK"
\* path.lower().endswith(".zip")
EndsWithZip(path) == path = "/Users/u/Desktop/fw.zip"
\* "com." in name
HasComDot(name) == name \in {"com.example.app", "com.adblock.app"}
\* path.startswith("/sdcard/")
StartsWithSdcard(path) ==
    path \in {"/sdcard/Download/a.txt", "/sdcard/Pictures/Screenshot_0.png",
              "/sdcard/Pictures/Screenshot_1.png", "/sdcard/Pictures/Screenshot_2.png"}

\* self._show_error(msg) ; return
Reject(msg) ==
    /\ output_text' = show_error(msg)
    /\ UNCHANGED <<command_running, progress_counter, result_queue, buttons,
                   workers, ui, nextId, delivered, session>>

\* run_install_apk with the entry's text; isfile is os.path.isfile(apk_path)
run_install_apk(entry, isfile) ==
    /\ CanClick("install_button")
    /\ LET apk_path == StripEntry(entry) IN
       IF apk_path = ""
       THEN Reject("Please enter a valid APK path")
       ELSE IF ~isfile \/ ~EndsWithApk(apk_path)
            THEN Reject("Please enter a valid APK path (file must exist and end with .apk)")
            ELSE run_single_adb_command("install", <<"adb", "install", apk_path>>)

run_search_apk(entry) ==
    /\ CanClick("search_button")
    /\ LET apk_name == StripEntry(entry) IN
       IF apk_name = ""
       THEN Reject("Please enter a valid APK/package name fragment")
       ELSE run_single_adb_command("search",
                <<"adb", "shell pm list packages | grep -i", apk_name>>)

run_uninstall_apk(entry) ==
    /\ CanClick("uninstall_button")
    /\ LET apk_name == StripEntry(entry) IN
       IF apk_name = "" \/ ~HasComDot(apk_name)
       THEN Reject("Please enter a valid package name (e.g. com.example.app)")
       ELSE run_single_adb_command("uninstall", <<"adb", "uninstall", apk_name>>)

run_sideload_firmware(entry, isfile) ==
    /\ CanClick("sideload_button")
    /\ LET firmware_path == StripEntry(entry) IN
       IF firmware_path = "" \/ ~isfile \/ ~EndsWithZip(firmware_path)
       THEN Reject("Please enter a valid firmware path (.zip)")
       ELSE run_single_adb_command("sideload", <<"adb", "sideload", firmware_path>>)

\* a handler that forgets the test of the /sdcard/ prefix
run_check_storage_anyPath(entry) ==
    /\ CanClick("storage_button")
    /\ LET path == StripEntry(entry) IN
       IF path = ""
       THEN Reject("Please enter a valid device storage path (starting with /sdcard/)")
       ELSE run_single_adb_command("storage", <<"adb", "shell ls -l", path>>)

run_check_storage(entry) ==
    /\ CanClick("storage_button")
    /\ LET path == StripEntry(entry) IN
       IF path = "" \/ ~StartsWithSdcard(path)
       THEN Reject("Please enter a valid device storage path (starting with /sdcard/)")
       ELSE run_single_adb_command("storage", <<"adb", "shell ls -l", path>>)

\* run_adb_push ; exists is os.path.exists(local_path)
run_adb_push(local_entry, device_entry, exists) ==
    /\ CanClick("push_button")
    /\ LET local_path == StripEntry(local_entry)
           device_path == StripEntry(device_entry) IN
       IF local_path = "" \/ ~exists
       THEN Reject("Please select a valid local file")
       ELSE IF device_path = "" \/ ~StartsWithSdcard(device_path)
            THEN Reject("Please enter a valid device path (starting with /sdcard/)")
            ELSE run_single_adb_command("push",
                     <<"adb", "push", local_path, device_path>>)

\* a handler that accepts every device path that is not empty
run_adb_pull_anyPath(device_entry, local_entry) ==
    /\ CanClick("pull_button")
    /\ LET device_path == StripEntry(device_entry)
           local_path == StripEntry(local_entry) IN
       IF device_path = ""
       THEN Reject("Please enter a valid device path (starting with /sdcard/)")
       ELSE IF local_path = ""
            THEN Reject("Please select a valid local save path")
            ELSE run_single_adb_command("pull",
                     <<"adb", "pull", device_path, local_path>>)

run_adb_pull(device_entry, local_entry) ==
    /\ CanClick("pull_button")
    /\ LET device_path == StripEntry(device_entry)
           local_path == StripEntry(local_entry) IN
       IF device_path = "" \/ ~StartsWithSdcard(device_path)
       THEN Reject("Please enter a valid device path (starting with /sdcard/)")
       ELSE IF local_path = ""
            THEN Reject("Please select a valid local save path")
            ELSE run_single_adb_command("pull",
                     <<"adb", "pull", device_path, local_path>>)

\* a handler whose command string depends on the number of the submit
run_text_input_numbered(entry) ==
    /\ CanClick("text_button")
    /\ LET text == StripEntry(entry) IN
       IF text = ""
       THEN Reject("Please enter some text")
       ELSE run_single_adb_command("text",
                <<"adb", "shell input text",
                  IF nextId = 1 THEN EscapeQuotes(text) ELSE "2">>)

run_text_input(entry) ==
    /\ CanClick("text_button")
    /\ LET text == StripEntry(entry) IN
       IF text = ""
       THEN Reject("Please enter some text")
       ELSE run_single_adb_command("text",
                <<"adb", "shell input text", EscapeQuotes(text)>>)

run_execute_command(entry) ==
    /\ CanClick("command_button")
    /\ LET command == StripEntry(entry) IN
       IF command = ""
       THEN Reject("Please enter a valid command")
       ELSE run_single_adb_command("command", <<command>>)

run_start_activity(entry) ==
    /\ CanClick("activity_button")
    /\ LET activity == StripEntry(entry) IN
       IF activity = ""
       THEN Reject("Please enter a valid Package/Activity (e.g. com.example/.MainActivity)")
       ELSE run_single_adb_command("start_activity",
                <<"adb", "shell am start -n", activity>>)

\* ------------------------------------------------------------ thread_target
\* str(e) of the exceptions the worker can meet
PopenError == "[Errno 2] No such file or directory"
DecodeError == "'utf-8' codec can't decode byte"
TimeoutError == "Command timed out after 300 seconds"

\* values a getprop query prints (stdout.strip())
PropValues == {"A13"}

\* stdout.strip() or "N/A"
OrNA(v) == IF v = "" THEN "N/A" ELSE v

\* the text the except clauses of the two thread_targets assign
ExceptText(op, exc) ==
    IF op = "device_info"
    THEN CASE exc = "timeout"  -> T("Error: Device info query timed out.")
           [] exc = "exit_code" -> T("No devices connected!\n")
           [] exc = "launch"   -> TR("Error running adb: ", <<PopenError>>)
           [] exc = "other"    -> TR("Error running adb: ", <<DecodeError>>)
    ELSE CASE exc = "timeout"  -> TR("Error: ", <<TimeoutError>>)
           [] exc = "launch"   -> TR("Error: ", <<PopenError>>)
           [] exc = "other"    -> TR("Error: ", <<DecodeError>>)

\* the seven output lines built from results after the loop
DeviceInfoText(results) ==
    TR("Device Information:", results)

\* communicate(timeout=...) of the operation's wait
WaitTimeout(op) == IF op = "device_info" THEN PropTimeout ELSE CommandTimeout

\* the worker leaves its try statement with formatted_output = text and the
\* finally clause runs self.result_queue.put((formatted_output, button))
Put(i, text) ==
    /\ result_queue' = Append(result_queue,
                              [text |-> text, button |-> workers[i].button,
                               id |-> i])
    /\ workers' = [workers EXCEPT ![i].pc = "clear", ![i].k = 0,
                                  ![i].timeout = NoTimeout,
                                  ![i].results = <<>>,
                                  ![i].output = <<>>,
                                  ![i].command = <<>>]

\* a thread that waits for the mirroring process as for any other
ThreadLaunch_waits(i, raises) ==
    /\ workers[i].pc = "start"
    /\ LET op == workers[i].op IN
       IF raises
       THEN Put(i, ExceptText(op, "launch"))
       ELSE /\ workers' = [workers EXCEPT ![i].pc = "wait",
                                          ![i].timeout = WaitTimeout(op)]
            /\ UNCHANGED result_queue
    /\ UNCHANGED <<command_running, progress_counter, output_text, buttons,
                   ui, nextId, delivered, session>>

\* subprocess.Popen(...) of a thread that has just started: the process
\* starts, or Popen raises; scrcpy is not waited for
ThreadLaunch(i, raises) ==
    /\ workers[i].pc = "start"
    /\ LET op == workers[i].op IN
       IF raises
       THEN Put(i, ExceptText(op, "launch"))
       ELSE IF workers[i].command = <<"scrcpy">>
            THEN Put(i, FormatOutput(op, <<>>))
            ELSE /\ workers' = [workers EXCEPT ![i].pc = "wait",
                                               ![i].timeout = WaitTimeout(op),
                                               ![i].command = Replace(@)]
                 /\ UNCHANGED result_queue
    /\ UNCHANGED <<command_running, progress_counter, output_text, buttons,
                   ui, nextId, delivered, session>>

\* process.communicate returns: the process exited with code rc and output
\* raw (run_single_adb_command does not read the return code)
ThreadExit(i, rc, raw) ==
    /\ workers[i].pc = "wait"
    /\ workers[i].op # "device_info"
    /\ Put(i, FormatOutput(workers[i].op, raw))
    /\ UNCHANGED <<command_running, progress_counter, output_text, buttons,
                   ui, nextId, delivered, session>>

\* a loop that shows what it has got when a query fails
ThreadPropExit_partial(i, rc, value, raises) ==
    /\ workers[i].pc = "wait"
    /\ workers[i].op = "device_info"
    /\ IF rc # 0
       THEN Put(i, DeviceInfoText(workers[i].results))
       ELSE LET results == Append(workers[i].results, OrNA(value)) IN
            IF workers[i].k + 1 = NumProps
            THEN Put(i, DeviceInfoText(results))
            ELSE IF raises
                 THEN Put(i, ExceptText("device_info", "launch"))
                 ELSE /\ workers' = [workers EXCEPT ![i].k = @ + 1,
                                                    ![i].results = results]
                      /\ UNCHANGED result_queue
    /\ UNCHANGED <<command_running, progress_counter, output_text, buttons,
                   ui, nextId, delivered, session>>

\* one getprop query of the device-info loop returns with code rc and
\* stdout value; the loop goes on with the Popen of the next property,
\* which may raise
ThreadPropExit(i, rc, value, raises) ==
    /\ workers[i].pc = "wait"
    /\ workers[i].op = "device_info"
    /\ IF rc # 0
       THEN Put(i, ExceptText("device_info", "exit_code"))
       ELSE LET results == Append(workers[i].results, OrNA(value)) IN
            IF workers[i].k + 1 = NumProps
            THEN Put(i, DeviceInfoText(results))
            ELSE IF raises
                 THEN Put(i, ExceptText("device_info", "launch"))
                 ELSE /\ workers' = [workers EXCEPT ![i].k = @ + 1,
                                                    ![i].results = results]
                      /\ UNCHANGED result_queue
    /\ UNCHANGED <<command_running, progress_counter, output_text, buttons,
                   ui, nextId, delivered, session>>

\* an exception raised inside a formatter (none of them raises)
IsText(r) == DOMAIN r = {"msg", "raw", "n"}

\* communicate has returned and the thread holds output: it calls
\* format_output_func(output) inside the try statement and enqueues the text,
\* or the text of the exception the call raised
ThreadFormat(i) ==
    /\ workers[i].pc = "format"
    /\ LET r == FormatOutput(workers[i].op, workers[i].output) IN
       IF IsText(r) THEN Put(i, r) ELSE Put(i, TR("Error: ", <<r.exc>>))
    /\ UNCHANGED <<command_running, progress_counter, output_text, buttons,
                   ui, nextId, delivered, session>>

\* the timed-out command is started again
ThreadTimeout_retry(i) ==
    /\ workers[i].pc = "wait"
    /\ workers[i].timeout # NoTimeout
    /\ workers' = [workers EXCEPT ![i].pc = "start", ![i].k = 0,
                                  ![i].timeout = NoTimeout,
                                  ![i].results = <<>>]
    /\ UNCHANGED <<command_running, progress_counter, result_queue,
                   output_text, buttons, ui, nextId, delivered, session>>

\* communicate raises subprocess.TimeoutExpired
ThreadTimeout(i) ==
    /\ workers[i].pc = "wait"
    /\ workers[i].timeout # NoTimeout
    /\ Put(i, ExceptText(workers[i].op, "timeout"))
    /\ UNCHANGED <<command_running, progress_counter, output_text, buttons,
                   ui, nextId, delivered, session>>

\* the exception escapes the try statement: the thread dies without a result
ThreadRaises_propagates(i) ==
    /\ workers[i].pc = "wait"
    /\ workers' = [workers EXCEPT ![i] = DoneWorker]
    /\ UNCHANGED <<command_running, progress_counter, result_queue,
                   output_text, buttons, ui, nextId, delivered, session>>

\* communicate raises another exception (undecodable output)
ThreadRaises(i) ==
    /\ workers[i].pc = "wait"
    /\ Put(i, ExceptText(workers[i].op, "other"))
    /\ UNCHANGED <<command_running, progress_counter, output_text, buttons,
                   ui, nextId, delivered, session>>

\* the worker writes its result to the display itself
ThreadClear_touchesDisplay(i) ==
    /\ workers[i].pc = "clear"
    /\ command_running' = FALSE
    /\ output_text' = <<T("Done")>>
    /\ workers' = [workers EXCEPT ![i] = DoneWorker]
    /\ UNCHANGED <<progress_counter, result_queue, buttons,
                   ui, nextId, delivered, session>>

\* finally: self.command_running = False ; the thread ends
ThreadClear(i) ==
    /\ workers[i].pc = "clear"
    /\ command_running' = FALSE
    /\ workers' = [workers EXCEPT ![i] = DoneWorker]
    /\ UNCHANGED <<progress_counter, result_queue, output_text, buttons,
                   ui, nextId, delivered, session>>

\* ------------------------------------------------------------ UI-thread ticks
RECURSIVE Drain_noEnable(_, _, _, _)
\* a drain loop that forgets button.config(state=tk.NORMAL)
Drain_noEnable(q, text, bs, sh) ==
    IF Len(q) = 0 THEN [text |-> text, buttons |-> bs, shown |-> sh]
    ELSE Drain_noEnable(Tail(q), <<Head(q).text>>, bs, sh \cup {Head(q).id})

RECURSIVE Drain(_, _, _, _)
\* the while loop of _check_queue over queue q: the last text stays on the
\* display, every button of a drained result is re-enabled
Drain(q, text, bs, sh) ==
    IF Len(q) = 0 THEN [text |-> text, buttons |-> bs, shown |-> sh]
    ELSE Drain(Tail(q), <<Head(q).text>>,
               Config(bs, Head(q).button, "normal"),
               sh \cup {Head(q).id})

\* a drain tick that leaves the flag to the worker
check_queue_keepsFlag ==
    /\ ui.pc = "mainloop"
    /\ "_check_queue" \in after
    /\ IF Len(result_queue) = 0
       THEN UNCHANGED <<output_text, buttons, delivered, result_queue>>
       ELSE LET d == Drain(result_queue, output_text, buttons, delivered) IN
            /\ output_text' = d.text
            /\ buttons' = d.buttons
            /\ delivered' = d.shown
            /\ result_queue' = <<>>
    /\ UNCHANGED <<command_running, progress_counter, workers, ui, nextId, session>>

\* _check_queue, every 100 ms
check_queue ==
    /\ ui.pc = "mainloop"
    /\ "_check_queue" \in after
    /\ IF Len(result_queue) = 0
       THEN UNCHANGED <<command_running, output_text, buttons, delivered, result_queue>>
       ELSE LET d == Drain(result_queue, output_text, buttons, delivered) IN
            /\ output_text' = d.text
            /\ buttons' = d.buttons
            /\ delivered' = d.shown
            /\ command_running' = FALSE
            /\ result_queue' = <<>>
    /\ UNCHANGED <<progress_counter, workers, ui, nextId, session>>

\* the text of "Still running... (Ns)"
StillRunning(n) == [msg |-> "Still running... (s)\n", raw |-> <<>>, n |-> n]

\* a tick that does not test the flag
update_progress_always ==
    /\ ui.pc = "mainloop"
    /\ "_update_progress" \in after
    /\ progress_counter < MaxProgress
    /\ progress_counter' = progress_counter + 1
    /\ output_text' = <<StillRunning(progress_counter + 1)>>
    /\ UNCHANGED <<command_running, result_queue, buttons, workers, ui,
                   nextId, delivered, session>>

\* _update_progress, every 1000 ms
update_progress ==
    /\ ui.pc = "mainloop"
    /\ "_update_progress" \in after
    /\ IF command_running
       THEN /\ progress_counter < MaxProgress
            /\ progress_counter' = progress_counter + 1
            /\ output_text' = <<StillRunning(progress_counter + 1)>>
       ELSE UNCHANGED <<progress_counter, output_text>>
    /\ UNCHANGED <<command_running, result_queue, buttons, workers, ui,
                   nextId, delivered, session>>

\* ------------------------------------------------------------ run_screenshot
\* the UI thread blocked in subprocess.run(command, ...) of run_screenshot
Blocked(step, command) == [pc |-> step, timeout |-> NoTimeout, command |-> command]

\* f"/sdcard/Pictures/Screenshot_{ts}.png" for the time stamps of the model
screenshot_device_path(ts) ==
    CASE ts = 0 -> "/sdcard/Pictures/Screenshot_0.png"
      [] ts = 1 -> "/sdcard/Pictures/Screenshot_1.png"
      [] OTHER  -> "/sdcard/Pictures/Screenshot_2.png"

\* os.path.expanduser(f"~/Desktop/Screenshot_{ts}.png")
screenshot_local_path(ts) ==
    CASE ts = 0 -> "/Users/patrickxu/Desktop/Screenshot_0.png"
      [] ts = 1 -> "/Users/patrickxu/Desktop/Screenshot_1.png"
      [] OTHER  -> "/Users/patrickxu/Desktop/Screenshot_2.png"

\* the two command strings of run_screenshot after .replace("adb", self.adb_path)
screencap_cmd(ts) == Replace(<<"adb", "shell screencap -p", screenshot_device_path(ts)>>)
pull_cmd(ts) == Replace(<<"adb", "pull", screenshot_device_path(ts), screenshot_local_path(ts)>>)

\* run_screenshot up to its first subprocess.run: the gate is not tested,
\* the capture runs on the UI thread
run_screenshot(raises) ==
    /\ CanClick("screenshot_button")
    /\ IF raises
       THEN /\ output_text' = <<T("Taking screenshot...\n"), TR("Error: ", <<PopenError>>)>>
            /\ UNCHANGED ui
       ELSE /\ output_text' = <<T("Taking screenshot...\n")>>
            /\ ui' = Blocked("screencap", screencap_cmd(Stamp(clock)))
    /\ UNCHANGED <<command_running, progress_counter, result_queue, buttons,
                   workers, nextId, delivered, session>>

\* a handler that goes on to the pull whatever the capture has printed
ScreencapExit_alwaysPulls(raw, raises) ==
    /\ ui.pc = "screencap"
    /\ IF raises
       THEN /\ output_text' = output_text \o
                   <<T("Screenshot taken on device.\n"), TR("Error: ", <<PopenError>>)>>
            /\ ui' = MainLoop
       ELSE /\ output_text' = Append(output_text, T("Screenshot taken on device.\n"))
            /\ ui' = Blocked("pull", pull_cmd(Stamp(clock)))
    /\ UNCHANGED <<command_running, progress_counter, result_queue, buttons,
                   workers, nextId, delivered, session>>

\* the capture process exits with output raw; the pull is started unless
\* the output holds "error" or "no devices"
ScreencapExit(raw, raises) ==
    /\ ui.pc = "screencap"
    /\ IF (\E ln \in 1..Len(raw) : HasErrorLower(raw[ln])) \/ (\E ln \in 1..Len(raw) : HasNoDevices(raw[ln]))
       THEN /\ output_text' = Append(output_text, TR("Screenshot failed: ", raw))
            /\ ui' = MainLoop
       ELSE IF raises
            THEN /\ output_text' = output_text \o
                        <<T("Screenshot taken on device.\n"), TR("Error: ", <<PopenError>>)>>
                 /\ ui' = MainLoop
            ELSE /\ output_text' = Append(output_text, T("Screenshot taken on device.\n"))
                 /\ ui' = Blocked("pull", pull_cmd(Stamp(clock)))
    /\ UNCHANGED <<command_running, progress_counter, result_queue, buttons,
                   workers, nextId, delivered, session>>

\* the pull process exits with output raw
PullExit(raw) ==
    /\ ui.pc = "pull"
    /\ output_text' = output_text \o <<format_pull(raw), T("\nSaved to: ~/Desktop/Screenshot.png")>>
    /\ ui' = MainLoop
    /\ UNCHANGED <<command_running, progress_counter, result_queue, buttons,
                   workers, nextId, delivered, session>>

\* subprocess.run raises while the UI thread waits (undecodable output)
ScreenshotRaises ==
    /\ ui.pc \in {"screencap", "pull"}
    /\ output_text' = Append(output_text, TR("Error: ", <<DecodeError>>))
    /\ ui' = MainLoop
    /\ UNCHANGED <<command_running, progress_counter, result_queue, buttons,
                   workers, nextId, delivered, session>>

\* ------------------------------------------------------------ specification
\* every step of a background worker
Worker(i) ==
    \/ \E raises \in BOOLEAN : ThreadLaunch(i, raises)
    \/ \E rc \in {0, 1}, raw \in RawTexts : ThreadExit(i, rc, raw)
    \/ \E rc \in {0, 1}, v \in PropValues, raises \in BOOLEAN :
          ThreadPropExit(i, rc, v, raises)
    \/ ThreadTimeout(i)
    \/ ThreadRaises(i)
    \/ ThreadClear(i)

Next ==
    \/ \E op \in Ops \ {"device_info"} : run_single_adb_command(op, FixedCommand(op))
    \/ run_adb_command_device_info
    \/ \E raises \in BOOLEAN : run_screenshot(raises)
    \/ \E raw \in RawTexts, raises \in BOOLEAN : ScreencapExit(raw, raises)
    \/ \E raw \in RawTexts : PullExit(raw)
    \/ ScreenshotRaises
    \/ check_queue
    \/ update_progress
    \/ \E i \in Ids : Worker(i)

Spec == Init /\ [][Next]_vars

\* fairness: a started thread keeps running, the clock of communicate(timeout)
\* advances, and a due Tk timer callback runs whenever the main loop has
\* control.  No external process is ever obliged to exit.
LiveNext == Next /\ nextId' <= MaxLive + 1

FairSpec ==
    /\ Init /\ [][LiveNext]_vars
    /\ \A i \in Ids :
         /\ WF_vars(\E raises \in BOOLEAN : ThreadLaunch(i, raises))
         /\ WF_vars(ThreadTimeout(i))
         /\ WF_vars(ThreadClear(i))
    /\ SF_vars(check_queue)
    /\ SF_vars(update_progress)

\* the handlers that check the user's entries, the workers they start and
\* the drain tick
FormNext ==
    /\ \/ \E e \in PathEntries, isfile \in BOOLEAN : run_install_apk(e, isfile)
       \/ \E e \in TextEntries : run_search_apk(e)
       \/ \E e \in TextEntries : run_uninstall_apk(e)
       \/ \E e \in PathEntries, isfile \in BOOLEAN : run_sideload_firmware(e, isfile)
       \/ \E e \in DevicePathEntries : run_check_storage(e)
       \/ \E l \in PathEntries, d \in DevicePathEntries, exists \in BOOLEAN :
             run_adb_push(l, d, exists)
       \/ \E d \in DevicePathEntries, l \in PathEntries : run_adb_pull(d, l)
       \/ \E e \in TextEntries : run_text_input(e)
       \/ \E e \in TextEntries : run_execute_command(e)
       \/ \E e \in TextEntries : run_start_activity(e)
       \/ check_queue
       \/ \E i \in Ids, raises \in BOOLEAN : ThreadLaunch(i, raises)
       \/ \E i \in Ids, rc \in {0, 1}, raw \in RawTexts : ThreadExit(i, rc, raw)
       \/ \E i \in Ids : ThreadClear(i)
    /\ nextId' <= MaxLive + 1

FormSpec == Init /\ [][FormNext]_vars

\* the outputs given to the formatters: up to MaxLines lines
FmtRaws == UNION {[1..n -> Lines] : n \in 0..MaxLines}

\* the program at the moment the process of an accepted invocation of op has
\* exited with output raw (Cast Screen does not read any output)
FmtInit ==
    \E op \in RunnerOps, raw \in FmtRaws :
        /\ op = "scrcpy" => raw = <<>>
        /\ command_running = TRUE
        /\ progress_counter = 0
        /\ result_queue = <<>>
        /\ output_text = <<T("Running command... Please wait.\n")>>
        /\ buttons = Config([w \in Widgets |-> "normal"], ButtonArg(op), "disabled")
        /\ workers = [i \in Ids |->
                        IF i = 1
                        THEN [NewWorker(op, ButtonArg(op), <<>>) EXCEPT
                                 !.pc = "format", !.output = raw]
                        ELSE NoWorker]
        /\ ui = MainLoop
        /\ nextId = 2
        /\ delivered = {}
        /\ clock = 0
        /\ screenshot_cmd = Stamp(0)
        /\ messagebox = <<>>
        /\ after = Timers

\* the formatter is applied, the result handed over and displayed
FmtNext ==
    \/ \E i \in Ids : ThreadFormat(i)
    \/ \E i \in Ids : ThreadClear(i)
    \/ check_queue

FmtSpec == FmtInit /\ [][FmtNext]_vars

\* ----------------------------------------------- the tool without threads
\* src/ADBTool.py after its __init__ at clock value now: create_controls has
\* built screenshot_cmd with the time stamp of that moment; the tool has no
\* flag, no queue, no worker and schedules no callback
SyncInit ==
    \E now \in 0..MaxClock :
        /\ clock = now
        /\ screenshot_cmd = Stamp(now)
        /\ command_running = FALSE
        /\ progress_counter = 0
        /\ result_queue = <<>>
        /\ output_text = <<T("ADB Tool ready. Click 'List Devices' to begin.\n")>>
        /\ buttons = [w \in Widgets |-> "normal"]
        /\ workers = [i \in Ids |-> NoWorker]
        /\ ui = MainLoop
        /\ nextId = 1
        /\ delivered = {}
        /\ messagebox = <<>>
        /\ after = {}

\* time passes
Tick ==
    /\ clock < MaxClock
    /\ clock' = clock + 1
    /\ UNCHANGED <<command_running, progress_counter, result_queue,
                   output_text, buttons, workers, ui, nextId, delivered,
                   screenshot_cmd, messagebox, after>>

\* the UI thread inside subprocess.run of run_single_adb_command for
\* operation op, whose command holds time stamp ts
Running(op, ts) == [pc |-> "run", timeout |-> NoTimeout, op |-> op, ts |-> ts]

\* the Screen Shot button of src/ADBTool.py:
\* lambda: self.run_single_adb_command(screenshot_cmd, self.format_screenshot)
sync_screenshot(raises) ==
    /\ CanClick("screenshot_button")
    /\ IF raises
       THEN /\ output_text' = <<TR("Error: ", <<PopenError>>)>>
            /\ UNCHANGED ui
       ELSE /\ output_text' = <<>>
            /\ ui' = Running("screenshot", screenshot_cmd)
    /\ UNCHANGED <<command_running, progress_counter, result_queue, buttons,
                   workers, nextId, delivered, session>>

\* the List Devices button of src/ADBTool.py
sync_devices(raises) ==
    /\ CanClick("list_devices_button")
    /\ IF raises
       THEN /\ output_text' = <<TR("Error: ", <<PopenError>>)>>
            /\ UNCHANGED ui
       ELSE /\ output_text' = <<>>
            /\ ui' = Running("devices", Stamp(0))
    /\ UNCHANGED <<command_running, progress_counter, result_queue, buttons,
                   workers, nextId, delivered, session>>

\* subprocess.run returns with output raw: the formatted text is inserted
SyncExit(raw) ==
    /\ ui.pc = "run"
    /\ output_text' = <<FormatOutput(ui.op, raw)>>
    /\ ui' = MainLoop
    /\ UNCHANGED <<command_running, progress_counter, result_queue, buttons,
                   workers, nextId, delivered, session>>

\* subprocess.run raises (undecodable output)
SyncRaises ==
    /\ ui.pc = "run"
    /\ output_text' = <<TR("Error: ", <<DecodeError>>)>>
    /\ ui' = MainLoop
    /\ UNCHANGED <<command_running, progress_counter, result_queue, buttons,
                   workers, nextId, delivered, session>>

SyncNext ==
    \/ Tick
    \/ \E raises \in BOOLEAN : sync_screenshot(raises)
    \/ \E raises \in BOOLEAN : sync_devices(raises)
    \/ \E raw \in FmtRaws : SyncExit(raw)
    \/ SyncRaises

SyncSpec == SyncInit /\ [][SyncNext]_vars

\* ------------------------------------------------------------------ start
\* the program when main() has created the root window and calls ADBTool(root)
StartInit ==
    /\ command_running = FALSE
    /\ progress_counter = 0
    /\ result_queue = <<>>
    /\ output_text = <<>>
    /\ buttons = [w \in Widgets |-> "absent"]
    /\ workers = [i \in Ids |-> NoWorker]
    /\ ui = [pc |-> "init", timeout |-> NoTimeout]
    /\ nextId = 1
    /\ delivered = {}
    /\ clock = 0
    /\ screenshot_cmd = Stamp(0)
    /\ messagebox = <<>>
    /\ after = {}

\* the text of the dialog shown when adb is missing
AdbNotFound == "ADB not found. Please ensure Android SDK platform-tools installed and adb is on PATH."

\* the root window is destroyed: root.mainloop() has nothing to run
Exited == [pc |-> "exited", timeout |-> NoTimeout]

\* a check_adb that does not run the version probe
check_adb_whichOnly(which_rc, which_stdout, version_rc, raises) ==
    ~raises /\ which_rc = 0 /\ which_stdout # ""

\* check_adb: 'which adb' must exit with 0 and print a path, 'adb --version'
\* must exit with 0, and neither subprocess.run may raise
check_adb(which_rc, which_stdout, version_rc, raises) ==
    IF raises THEN FALSE
    ELSE IF which_rc # 0 \/ which_stdout = "" THEN FALSE
         ELSE version_rc = 0

\* ADBTool.__init__ and the root.mainloop() call of main
ADBTool_init(which_rc, which_stdout, version_rc, raises) ==
    /\ ui.pc = "init"
    /\ IF ~check_adb(which_rc, which_stdout, version_rc, raises)
       THEN /\ messagebox' = Append(messagebox, AdbNotFound)
            /\ ui' = Exited
            /\ UNCHANGED <<output_text, buttons, screenshot_cmd, after>>
       ELSE /\ buttons' = [w \in Widgets |-> "normal"]
            /\ screenshot_cmd' = Stamp(clock)
            /\ after' = Timers
            /\ output_text' = <<T("ADB Tool ready. Click 'List Devices' to begin.\n")>>
            /\ ui' = MainLoop
            /\ UNCHANGED messagebox
    /\ UNCHANGED <<command_running, progress_counter, result_queue, workers,
                   nextId, delivered, clock>>

StartNext ==
    \/ \E which_rc \in {0, 1}, which_stdout \in {"", "/usr/local/bin/adb"},
          version_rc \in {0, 1}, raises \in BOOLEAN :
          ADBTool_init(which_rc, which_stdout, version_rc, raises)
    \/ LiveNext

StartSpec == StartInit /\ [][StartNext]_vars

\* ------------------------------------------------------------------ claims
\* the thread of invocation i exists and has not ended
Alive(i) == workers[i].pc \in {"start", "wait", "clear"}
\* the thread of invocation i has not yet left its try block
Executing(i) == workers[i].pc \in {"start", "wait"}
\* the results of invocation i waiting on the hand-off queue
QueuedOf(q, i) == {j \in 1..Len(q) : q[j].id = i}

\* C1: at most one invocation is in flight at any time: never two
\* background workers alive together.
C1_AtMostOneWorkerAlive ==
    Cardinality({i \in Ids : Alive(i)}) <= 1

\* C2: command_running is true while an invocation is in flight and false
\* otherwise: never false while a worker is executing its external process,
\* never true when no worker is alive.
C2_FlagTracksWorkers ==
    /\ (\E i \in Ids : Executing(i)) => command_running
    /\ command_running => \E i \in Ids : Alive(i)

\* a step of one of the two submit functions
SubmitStep ==
    \/ \E op \in Ops \ {"device_info"} : run_single_adb_command(op, FixedCommand(op))
    \/ run_adb_command_device_info

\* C3: a submit made while command_running is true is rejected with the
\* 'Another command is running' error; it starts no worker, leaves the flag,
\* progress_counter, the queue and every button unchanged, and records
\* nothing that could run the request later.
C3_BusyRejection ==
    [][(command_running /\ SubmitStep) =>
          /\ output_text' = show_error(BusyMessage)
          /\ UNCHANGED <<command_running, progress_counter, result_queue,
                         buttons, workers, ui, nextId, delivered, session>>]_vars

C3_Witness ==
    /\ output_text = show_error(BusyMessage)
    /\ command_running
    /\ Cardinality({i \in Ids : Alive(i)}) = 1
    /\ \E i \in Ids : workers[i].pc = "wait"

\* C4: every operation, Screen Shot included, yields the Busy rejection when
\* triggered while command_running is true: no external process is launched
\* and the flag is unchanged.
C4_ScreenshotBusyRejection ==
    [][(command_running /\ \E raises \in BOOLEAN : run_screenshot(raises)) =>
          /\ output_text' = show_error(BusyMessage)
          /\ UNCHANGED <<command_running, ui>>]_vars

\* C5: under fair scheduling of the workers and of the drain tick (the UI
\* thread returns to the main loop again and again), the result of every
\* accepted invocation is eventually taken off the queue and displayed, and
\* the widget that started it is eventually enabled again.
C5_ResultEventuallyDelivered ==
    ([]<>(ui.pc = "mainloop")) =>
        <>[](/\ \A i \in Ids :
                  workers[i].pc # "none" =>
                      i \in delivered /\ QueuedOf(result_queue, i) = {}
             /\ \A w \in Widgets : buttons[w] = "normal")

C5_Witness ==
    \E i \in delivered :
        /\ workers[i].pc = "done"
        /\ output_text = <<format_devices(<<"List of devices attached", "ABC123\tdevice">>)>>
        /\ buttons["list_devices_button"] = "normal"

\* the queue grew by exactly one result, of invocation i, with a text
PutOne(i) ==
    /\ Len(result_queue') = Len(result_queue) + 1
    /\ SubSeq(result_queue', 1, Len(result_queue)) = result_queue
    /\ LET item == result_queue'[Len(result_queue')] IN
          /\ item.id = i
          /\ item.button = workers[i].button
          /\ item.text # NoText

\* C6: whatever the outcome of an accepted invocation (exit, non-zero exit,
\* timeout, launch exception, any other exception), its worker leaves the
\* try statement by enqueuing exactly one result carrying a display text and
\* then clears command_running; it never ends without the enqueue and never
\* ends leaving the flag true.
C6_WorkerAlwaysReports ==
    /\ [](\A i \in Ids :
            /\ Executing(i) => QueuedOf(result_queue, i) = {} /\ i \notin delivered
            /\ Cardinality(QueuedOf(result_queue, i)) <= 1)
    /\ [][\A i \in Ids :
            /\ (Executing(i) /\ ~Executing(i)') =>
                  workers'[i].pc = "clear" /\ PutOne(i)
            /\ (workers[i].pc = "clear" /\ workers'[i] # workers[i]) =>
                  workers'[i].pc = "done" /\ command_running' = FALSE
            /\ workers[i].pc = "done" => workers'[i].pc = "done"
            /\ (QueuedOf(result_queue', i) # {} /\ QueuedOf(result_queue, i) = {})
                  => Executing(i)]_vars

C6_Witness ==
    \E j \in 1..Len(result_queue) :
        /\ result_queue[j].text = ExceptText("devices", "other")
        /\ workers[result_queue[j].id].pc = "done"
        /\ ~command_running

\* C7: a step of a background worker leaves the display and every button's
\* state unchanged.
C7_WorkerLeavesUIAlone ==
    [][\A i \in Ids :
          (workers[i].pc # "none" /\ workers'[i] # workers[i]) =>
              UNCHANGED <<output_text, buttons>>]_vars

C7_Witness ==
    \E i \in Ids :
        /\ workers[i].pc = "done"
        /\ QueuedOf(result_queue, i) # {}
        /\ output_text = <<T("Running command... Please wait.\n")>>
        /\ buttons["list_devices_button"] = "disabled"

\* C8: an accepted invocation cannot be cancelled: while its thread has not
\* left the wait on its external process, no step takes the runner from
\* Running to Idle, so the runner goes Idle, Running, Idle per invocation.
C8_RunningUntilCompletion ==
    [][\A i \in Ids :
          (Executing(i) /\ command_running /\ workers'[i] = workers[i]) =>
              command_running']_vars

\* C9: every wait on an external process, on a worker or on the UI thread,
\* is bounded by the fixed timeout of 300.
C9_EveryWaitBounded ==
    /\ \A i \in Ids :
          workers[i].pc = "wait" =>
              workers[i].timeout # NoTimeout /\ workers[i].timeout <= CommandTimeout
    /\ ui.pc # "mainloop" =>
          ui.timeout # NoTimeout /\ ui.timeout <= CommandTimeout

\* C10: a timed-out invocation is treated as failed: the worker enqueues the
\* timeout error text once and clears the flag without starting a process
\* again; the drain tick displays the text once and the result never comes
\* back on the queue.
C10_TimeoutIsFinal ==
    /\ [](\A i \in delivered :
            /\ workers[i].pc \in {"clear", "done"}
            /\ QueuedOf(result_queue, i) = {})
    /\ [][\A i \in Ids :
            /\ ThreadTimeout(i) =>
                  /\ workers'[i].pc = "clear"
                  /\ result_queue' =
                         Append(result_queue,
                                [text |-> ExceptText(workers[i].op, "timeout"),
                                 button |-> workers[i].button, id |-> i])
            /\ workers[i].pc \in {"clear", "done"} =>
                  workers'[i].pc \in {"clear", "done"}
            /\ (workers[i].pc = "clear" /\ workers'[i] # workers[i]) =>
                  workers'[i].pc = "done" /\ ~command_running'
            /\ \A j \in QueuedOf(result_queue, i) :
                  QueuedOf(result_queue', i) = {} =>
                      /\ i \notin delivered /\ i \in delivered'
                      /\ (j = Len(result_queue) =>
                            output_text' = <<result_queue[j].text>>)]_vars

C10_Witness ==
    \E i \in delivered :
        /\ workers[i].pc = "done"
        /\ output_text = <<ExceptText("device_info", "timeout")>>
        /\ ~command_running

\* ------------------------------------------------------------ claims C11..C20
\* the external processes the worker of invocation i has launched so far
\* while it waits: the queries that have returned and the one it waits for
ProcessesOfWorker(i) ==
    IF workers[i].pc = "wait" THEN workers[i].k + 1 ELSE 0

\* the external processes the Screen Shot handler has launched so far while
\* the UI thread waits in it
ProcessesOfScreenshot ==
    CASE ui.pc = "screencap" -> 1
      [] ui.pc = "pull"      -> 2
      [] OTHER               -> 0

\* C11: every accepted user action launches exactly one external process:
\* no worker and no handler is ever waiting for a second process of the
\* same action.
C11_OneProcessPerAction ==
    /\ \A i \in Ids : ProcessesOfWorker(i) <= 1
    /\ ProcessesOfScreenshot <= 1

\* the step shows one error text and changes nothing else
ErrorAndNothingElse ==
    /\ \E m \in {"Please enter a valid APK path",
                 "Please enter a valid APK path (file must exist and end with .apk)",
                 "Please enter a valid APK/package name fragment",
                 "Please enter a valid package name (e.g. com.example.app)",
                 "Please enter a valid firmware path (.zip)",
                 "Please enter a valid device storage path (starting with /sdcard/)",
                 "Please select a valid local file",
                 "Please enter a valid device path (starting with /sdcard/)",
                 "Please select a valid local save path",
                 "Please enter some text",
                 "Please enter a valid command",
                 "Please enter a valid Package/Activity (e.g. com.example/.MainActivity)"} :
          output_text' = show_error(m)
    /\ UNCHANGED <<command_running, progress_counter, result_queue, buttons,
                   workers, ui, nextId, delivered, session>>

\* C12: a submit whose entry fails its shape check (install path empty, not
\* an existing file or not ending in .apk; sideload path not ending in .zip;
\* uninstall name without "com."; storage, push or pull device path not
\* starting with /sdcard/; empty text, command, search fragment or activity)
\* shows a precondition error and nothing else: no worker is started, and
\* the flag, the queue and every button are unchanged.  In every state, no
\* such submit can take a step that is anything else.
C12_PreconditionErrorOnly ==
    /\ \A e \in PathEntries, isfile \in BOOLEAN :
         /\ (StripEntry(e) = "" \/ ~isfile \/ ~EndsWithApk(StripEntry(e)))
               => ~ENABLED (run_install_apk(e, isfile) /\ ~ErrorAndNothingElse)
         /\ ~EndsWithZip(StripEntry(e))
               => ~ENABLED (run_sideload_firmware(e, isfile) /\ ~ErrorAndNothingElse)
    /\ \A e \in TextEntries :
         /\ ~HasComDot(StripEntry(e))
               => ~ENABLED (run_uninstall_apk(e) /\ ~ErrorAndNothingElse)
         /\ StripEntry(e) = ""
               => /\ ~ENABLED (run_search_apk(e) /\ ~ErrorAndNothingElse)
                  /\ ~ENABLED (run_text_input(e) /\ ~ErrorAndNothingElse)
                  /\ ~ENABLED (run_execute_command(e) /\ ~ErrorAndNothingElse)
                  /\ ~ENABLED (run_start_activity(e) /\ ~ErrorAndNothingElse)
    /\ \A d \in DevicePathEntries :
         ~StartsWithSdcard(StripEntry(d)) =>
             /\ ~ENABLED (run_check_storage(d) /\ ~ErrorAndNothingElse)
             /\ \A l \in PathEntries :
                  /\ \A exists \in BOOLEAN :
                       ~ENABLED (run_adb_push(l, d, exists) /\ ~ErrorAndNothingElse)
                  /\ ~ENABLED (run_adb_pull(d, l) /\ ~ErrorAndNothingElse)

\* a rejected entry while an accepted invocation is waiting for its process
C12_Witness ==
    /\ output_text =
         show_error("Please enter a valid device storage path (starting with /sdcard/)")
    /\ command_running
    /\ \E i \in Ids : workers[i].pc = "wait" /\ workers[i].op = "install"
    /\ buttons["install_button"] = "disabled"
    /\ result_queue = <<>>

\* an external process launched by an operation has not exited yet
ProcessRunning ==
    \/ \E i \in Ids : workers[i].pc = "wait"
    \/ ui.pc \in {"screencap", "pull"}

\* C13: only the background worker waits for an external process: while a
\* process launched by an operation is running, the UI thread is in its main
\* loop, where the drain tick and the progress tick can run.
C13_OnlyWorkersBlock ==
    ProcessRunning => ui.pc = "mainloop" /\ ENABLED check_queue

\* C14: the progress tick shows a progress indication only while
\* command_running is true: with the flag false it leaves the display and
\* progress_counter unchanged, with the flag true it adds one to
\* progress_counter and shows it; every accepted submit resets
\* progress_counter to 0 and nothing else changes it, so the number on the
\* display is the number of ticks since that submit.
C14_ProgressOnlyWhileRunning ==
    /\ [](\A n \in 0..(MaxProgress + 1) :
            output_text = <<StillRunning(n)>> => n = progress_counter /\ n >= 1)
    /\ [][/\ update_progress =>
               IF command_running
               THEN /\ progress_counter' = progress_counter + 1
                    /\ output_text' = <<StillRunning(progress_counter')>>
               ELSE UNCHANGED <<progress_counter, output_text>>
          /\ nextId' # nextId =>
               nextId' = nextId + 1 /\ command_running' /\ progress_counter' = 0
          /\ progress_counter' # progress_counter =>
               \/ nextId' = nextId + 1 /\ progress_counter' = 0
               \/ /\ command_running /\ ui.pc = "mainloop"
                  /\ progress_counter' = progress_counter + 1
                  /\ output_text' = <<StillRunning(progress_counter')>>
                  /\ UNCHANGED <<command_running, nextId, workers>>]_vars

\* the second accepted invocation counts its own ticks from zero
C14_Witness ==
    /\ nextId = 3
    /\ workers[2].pc = "wait"
    /\ command_running
    /\ progress_counter = 1
    /\ output_text = <<StillRunning(1)>>

\* the thread of invocation i applies its formatter in this step
FormatStep(i) == workers[i].pc = "format" /\ workers'[i].pc = "clear"

\* the text the step hands over to the UI thread
HandedText == result_queue'[Len(result_queue')].text

\* the output holds "no devices" (in any case)
HasNoDevicesMarker(output) == \E ln \in 1..Len(output) : HasNoDevices(output[ln])

\* C15: for every operation's formatter and every raw text that holds the
\* "no devices" marker, the formatter returns the fixed "No devices
\* connected!" message, whatever else the text holds.
C15_NoDevicesMarkerWins ==
    [][\A i \in Ids :
          (FormatStep(i) /\ HasNoDevicesMarker(workers[i].output)) =>
              HandedText \in
                  {NoDevicesText,
                   T("No devices connected!\n\nCommand run: \"adb devices\"")}]_vars

\* the operations whose formatter tells success from failure
HeuristicOps ==
    {"install", "uninstall", "push", "pull", "sideload", "start_activity"}

\* the messages that report success
SuccessMessages ==
    {"Installation Successful!\n\nCommand run: \"adb install <APK_PATH>\"",
     "Uninstallation Successful!",
     "File pushed successfully:",
     "File pulled successfully:"}

\* the output holds the success marker
HasSuccessMarker(output) == \E ln \in 1..Len(output) : HasSuccess(output[ln])

\* the output holds a failure marker
HasFailureMarker(output) ==
    \E ln \in 1..Len(output) :
        HasFailed(output[ln]) \/ HasError(output[ln]) \/ HasNotFound(output[ln])

\* C16: a formatter with a success/failure heuristic reports success only
\* when the success marker is in the raw text; with neither marker in the
\* raw text it returns a message that is not a success message and that
\* carries the raw text.
C16_SuccessOnlyWithMarker ==
    [][\A i \in Ids :
          (FormatStep(i) /\ workers[i].op \in HeuristicOps) =>
              /\ HandedText.msg \in SuccessMessages
                    => HasSuccessMarker(workers[i].output)
              /\ (/\ ~HasSuccessMarker(workers[i].output)
                  /\ ~HasFailureMarker(workers[i].output)
                  /\ ~HasNoDevicesMarker(workers[i].output))
                    => /\ HandedText.msg \notin SuccessMessages
                       /\ HandedText.raw = workers[i].output]_vars

\* C17: every formatter returns a display text for every raw text, the
\* empty one and those without any marker included, and never raises; the
\* text it returns is the one handed over, and the drain tick displays it.
C17_FormattersTotal ==
    /\ [](\A i \in Ids :
            workers[i].pc = "format" =>
                IsText(FormatOutput(workers[i].op, workers[i].output)))
    /\ [][/\ \A i \in Ids :
               FormatStep(i) =>
                   /\ HandedText = FormatOutput(workers[i].op, workers[i].output)
                   /\ Len(result_queue') = Len(result_queue) + 1
          /\ (Len(result_queue) > 0 /\ Len(result_queue') = 0) =>
               output_text' = <<result_queue[Len(result_queue)].text>>]_vars

\* the empty output of List Devices has been formatted and displayed
C17_Witness ==
    /\ workers[1].op = "devices"
    /\ workers[1].pc \in {"clear", "done"}
    /\ 1 \in delivered
    /\ output_text = <<format_devices(<<>>)>>

\* a line of the form <serial><TAB>device
IsDeviceLine(ln) == ln = "ABC123\tdevice"

\* C18: for List Devices the display text is the fixed "No devices
\* connected!" message exactly when the raw output has no device line after
\* its header line (the first line that is not blank); otherwise every
\* device line after the header shows as "<serial> -> Connected".  Stated for
\* outputs that start with the header of the device list.
C18_DevicesListedExactly ==
    [][\A i \in Ids :
          (/\ FormatStep(i) /\ workers[i].op = "devices"
           /\ NonBlankLines(workers[i].output) # <<>>
           /\ NonBlankLines(workers[i].output)[1] = "List of devices attached") =>
              LET lines == NonBlankLines(workers[i].output)
                  devices == {j \in 2..Len(lines) : IsDeviceLine(lines[j])}
              IN /\ (HandedText = T("No devices connected!\n\nCommand run: \"adb devices\""))
                       <=> (devices = {})
                 /\ \A j \in devices :
                       \E h \in 1..Len(HandedText.raw) :
                           HandedText.raw[h] = ReplaceTabDevice(lines[j])]_vars

\* C19: the time stamp in the file name of a Screen Shot invocation is
\* sampled when the user action is taken: the command a Screen Shot action
\* runs holds the stamp of the clock at that action, so actions taken at
\* different seconds use different file names.
C19_StampSampledAtAction ==
    [][(ui.pc = "mainloop" /\ ui'.pc = "run" /\ ui'.op = "screenshot") =>
           ui'.ts = Stamp(clock)]_vars

\* the claim's case: the startup probes have failed
ProbeFails(which_rc, version_rc) == which_rc # 0 \/ version_rc # 0

\* C20: if the presence probe or the version probe of adb fails at startup,
\* the application shows the fixed error once and ends without entering the
\* main loop: no control is built, no tick is scheduled, and no command is
\* ever submitted.
C20_FatalStartup ==
    /\ [](messagebox # <<>> =>
            /\ messagebox = <<AdbNotFound>>
            /\ ui.pc = "exited"
            /\ \A w \in Widgets : buttons[w] = "absent"
            /\ after = {}
            /\ output_text = <<>>
            /\ ~command_running /\ nextId = 1 /\ result_queue = <<>>
            /\ \A i \in Ids : workers[i] = NoWorker)
    /\ [][/\ \A which_rc \in {0, 1}, which_stdout \in {"", "/usr/local/bin/adb"},
                version_rc \in {0, 1}, raises \in BOOLEAN :
               (/\ ProbeFails(which_rc, version_rc)
                /\ ADBTool_init(which_rc, which_stdout, version_rc, raises))
                  => messagebox' = <<AdbNotFound>> /\ ui'.pc = "exited"
          /\ ui.pc # "exited"
          /\ ui'.pc = "mainloop" => messagebox = <<>>]_vars

C20_Witness ==
    /\ messagebox = <<AdbNotFound>>
    /\ ui.pc = "exited"
    /\ ~ENABLED StartNext

\* ------------------------------------------------------------ claims C21..C30
\* outputs of the capture process: nothing, as after a capture that worked,
\* or a message
ScreencapRaws ==
    RawTexts \cup {<<>>, <<"adb: error: failed to stat remote object">>,
                   <<"Error: Activity class does not exist">>}

\* the handlers that name a path on the device, the Screen Shot handler, the
\* workers they start and the drain tick
PathNext ==
    /\ \/ \E e \in DevicePathEntries : run_check_storage(e)
       \/ \E l \in PathEntries, d \in DevicePathEntries, exists \in BOOLEAN :
             run_adb_push(l, d, exists)
       \/ \E d \in DevicePathEntries, l \in PathEntries : run_adb_pull(d, l)
       \/ \E raises \in BOOLEAN : run_screenshot(raises)
       \/ \E raw \in ScreencapRaws, raises \in BOOLEAN : ScreencapExit(raw, raises)
       \/ \E raw \in RawTexts : PullExit(raw)
       \/ ScreenshotRaises
       \/ check_queue
       \/ \E i \in Ids, raises \in BOOLEAN : ThreadLaunch(i, raises)
       \/ \E i \in Ids, rc \in {0, 1}, raw \in RawTexts : ThreadExit(i, rc, raw)
       \/ \E i \in Ids : ThreadClear(i)
    /\ nextId' <= MaxLive + 1

PathSpec == Init /\ [][PathNext]_vars

\* the device-side path in the command of a worker's invocation
DevicePathOf(w) ==
    CASE w.op = "storage" -> w.command[3]
      [] w.op = "push"    -> w.command[4]
      [] w.op = "pull"    -> w.command[3]

\* C21: every invocation that is started and names a device-side path (check
\* storage, push, pull, the two commands of Screen Shot) names a path that
\* begins with /sdcard/.
C21_DevicePathsUnderSdcard ==
    /\ \A i \in Ids :
          (/\ workers[i].pc \in {"start", "wait"}
           /\ workers[i].op \in {"storage", "push", "pull"})
             => StartsWithSdcard(DevicePathOf(workers[i]))
    /\ ui.pc \in {"screencap", "pull"} => StartsWithSdcard(ui.command[3])

C21_Witness ==
    /\ \E i \in Ids : workers[i].pc = "wait" /\ workers[i].op = "pull"
    /\ ui.pc = "screencap"

\* the text Cast Screen shows
CastingText == T("CASTING started in the BACKGROUND")

\* the worker of invocation i hands text over and goes on to clear the flag
Hands(i, text) ==
    /\ result_queue' = Append(result_queue,
                              [text |-> text, button |-> workers[i].button, id |-> i])
    /\ workers'[i].pc = "clear"

\* C22: the mirroring executable is launched fire-and-forget: its worker
\* never waits for the process and never reads its output; the step that
\* launches it without raising hands over "CASTING started in the BACKGROUND"
\* and goes on to clear the flag, so every queued result of a Cast Screen
\* worker is that text or the text of the exception the launch raised.
C22_CastIsFireAndForget ==
    \A i \in Ids :
        workers[i].op = "scrcpy" =>
            /\ workers[i].pc \in {"start", "clear"}
            /\ workers[i].pc = "start" =>
                  /\ ENABLED ThreadLaunch(i, FALSE)
                  /\ ~ENABLED (ThreadLaunch(i, FALSE) /\ ~Hands(i, CastingText))
            /\ workers[i].pc = "clear" =>
                  /\ ENABLED ThreadClear(i)
                  /\ \A j \in QueuedOf(result_queue, i) :
                        result_queue[j].text \in
                            {CastingText, ExceptText("scrcpy", "launch")}

C22_Witness ==
    \E i \in Ids :
        /\ workers[i].op = "scrcpy"
        /\ workers[i].pc = "clear"
        /\ \E j \in QueuedOf(result_queue, i) : result_queue[j].text = CastingText

\* the step accepts a submit of operation op
Accepts(op) ==
    /\ nextId' = nextId + 1
    /\ workers'[nextId].op = op

\* C23: an accepted submit made from a button disables the control that
\* originated it and changes no other control; a control is re-enabled only
\* by a drain tick that delivers a result, and nothing else changes the
\* state of a control.
C23_OriginatingControlDisabled ==
    [][/\ \A op \in Ops :
             (Accepts(op) /\ ButtonArg(op) # None) =>
                 buttons' = [buttons EXCEPT ![WidgetOf(op)] = "disabled"]
       /\ \A w \in Widgets :
             (buttons[w] = "disabled" /\ buttons'[w] = "normal") =>
                 delivered' # delivered
       /\ (buttons' # buttons) =>
             (nextId' = nextId + 1 \/ delivered' # delivered)]_vars

\* the step hands command to the runner for operation op, and the runner
\* accepts it: apart from what run_single_adb_command itself does (flag,
\* counter, display, button, new thread) nothing changes
Submits(op, command) ==
    /\ workers' = [workers EXCEPT ![nextId] = NewWorker(op, ButtonArg(op), command)]
    /\ nextId' = nextId + 1
    /\ command_running' = TRUE
    /\ buttons' = Config(buttons, ButtonArg(op), "disabled")
    /\ UNCHANGED <<result_queue, ui, delivered, session>>

\* the step is an accepted submit
Accepted == nextId' = nextId + 1

\* C24: the command string a handler formats is a function of the operation
\* and of its (stripped) parameters alone: in every state of the runner the
\* same entries give the same string, and formatting changes neither the
\* flag, the queue nor any other state beyond what the runner does with the
\* string.
C24_FormatterDeterministic ==
    /\ \A e \in PathEntries :
          /\ ~ENABLED (run_install_apk(e, TRUE) /\ Accepted
                       /\ ~Submits("install", <<"adb", "install", StripEntry(e)>>))
          /\ ~ENABLED (run_sideload_firmware(e, TRUE) /\ Accepted
                       /\ ~Submits("sideload", <<"adb", "sideload", StripEntry(e)>>))
    /\ \A e \in TextEntries :
          /\ ~ENABLED (run_search_apk(e) /\ Accepted
                       /\ ~Submits("search", <<"adb", "shell pm list packages | grep -i", StripEntry(e)>>))
          /\ ~ENABLED (run_uninstall_apk(e) /\ Accepted
                       /\ ~Submits("uninstall", <<"adb", "uninstall", StripEntry(e)>>))
          /\ ~ENABLED (run_text_input(e) /\ Accepted
                       /\ ~Submits("text", <<"adb", "shell input text", EscapeQuotes(StripEntry(e))>>))
          /\ ~ENABLED (run_execute_command(e) /\ Accepted
                       /\ ~Submits("command", <<StripEntry(e)>>))
          /\ ~ENABLED (run_start_activity(e) /\ Accepted
                       /\ ~Submits("start_activity", <<"adb", "shell am start -n", StripEntry(e)>>))
    /\ \A d \in DevicePathEntries :
          /\ ~ENABLED (run_check_storage(d) /\ Accepted
                       /\ ~Submits("storage", <<"adb", "shell ls -l", StripEntry(d)>>))
          /\ \A l \in PathEntries :
                /\ ~ENABLED (run_adb_push(l, d, TRUE) /\ Accepted
                             /\ ~Submits("push", <<"adb", "push", StripEntry(l), StripEntry(d)>>))
                /\ ~ENABLED (run_adb_pull(d, l) /\ Accepted
                             /\ ~Submits("pull", <<"adb", "pull", StripEntry(d), StripEntry(l)>>))

\* a push has been formatted from its two entries and accepted
C24_Witness ==
    \E i \in Ids :
        /\ workers[i].pc = "start"
        /\ workers[i].op = "push"
        /\ workers[i].command =
              <<"adb", "push", "/Users/u/Desktop/fw.zip", "/sdcard/Download/a.txt">>
        /\ command_running

\* C25: the hand-off queue holds at most one result that has not been
\* drained, so a drain tick writes at most one result to the display.
C25_AtMostOneQueuedResult == Len(result_queue) <= 1

\* the step writes a "Still running" message to the display
WritesStillRunning ==
    /\ output_text' # output_text
    /\ \E n \in 1..(MaxProgress + 1) : output_text' = <<StillRunning(n)>>

\* C26: once the drain tick has written a result to the display, no progress
\* tick replaces it with "Still running" unless a submit has been accepted
\* in between, in every interleaving of the worker's put, the worker's flag
\* clear and the two ticks: the drain that writes a result leaves the flag
\* false, only an accepted submit makes the flag true again, and a progress
\* tick writes only while the flag is true.
C26_ResultNotOverwrittenByProgress ==
    [][/\ (delivered' # delivered) => ~command_running'
       /\ (~command_running /\ command_running') => nextId' = nextId + 1
       /\ WritesStillRunning => command_running]_vars

\* the drain has displayed a result before its worker has cleared the flag,
\* and the progress tick is due
C26_Witness ==
    \E i \in delivered :
        /\ workers[i].pc = "clear"
        /\ ~command_running
        /\ result_queue = <<>>
        /\ ENABLED update_progress

\* the texts a worker hands over when communicate(timeout=...) has raised
\* TimeoutExpired
TimeoutTexts ==
    {ExceptText("devices", "timeout"), ExceptText("device_info", "timeout")}

\* the wait of invocation i has timed out and its result is still queued.
\* Neither the except clauses nor the finally clause of thread_target call
\* kill or terminate, and TimeoutExpired does not end the child: the process
\* that did not answer has not been terminated by the tool.
LeftRunning(i) ==
    \E j \in QueuedOf(result_queue, i) : result_queue[j].text \in TimeoutTexts

\* C27: whenever command_running is false, no external process launched by
\* an earlier invocation is still running (the mirroring process apart): no
\* worker waits for one, and a process whose wait timed out has been
\* terminated.
C27_IdleMeansNoProcess ==
    ~command_running =>
        \A i \in Ids : workers[i].pc # "wait" /\ ~LeftRunning(i)

\* "error" in output.lower() or "no devices" in output.lower()
CaptureFailed(raw) ==
    \E ln \in 1..Len(raw) : HasErrorLower(raw[ln]) \/ HasNoDevices(raw[ln])

\* the Screen Shot handler ends with "Screenshot failed: <output>"
EndsFailed(raw) ==
    /\ ui' = MainLoop
    /\ output_text' = Append(output_text, TR("Screenshot failed: ", raw))

\* C28: in Screen Shot the pull comes strictly after the capture and only if
\* the capture's output holds neither "error" nor "no devices" in any case of
\* letters: the handler waits for the pull only after it has reported the
\* capture, a capture whose output holds a marker ends the operation with
\* "Screenshot failed" and without a pull, and any other capture is followed
\* by the pull.
C28_PullOnlyAfterGoodCapture ==
    /\ ui.pc = "pull" =>
          /\ output_text = <<T("Taking screenshot...\n"), T("Screenshot taken on device.\n")>>
          /\ ui.command = pull_cmd(Stamp(clock))
    /\ ui.pc # "screencap" =>
          \A raw \in ScreencapRaws, raises \in BOOLEAN :
              ~ENABLED (ScreencapExit(raw, raises) /\ ui'.pc = "pull")
    /\ ui.pc = "screencap" =>
          \A raw \in ScreencapRaws :
              IF CaptureFailed(raw)
              THEN \A raises \in BOOLEAN :
                      /\ ENABLED ScreencapExit(raw, raises)
                      /\ ~ENABLED (ScreencapExit(raw, raises) /\ ~EndsFailed(raw))
              ELSE /\ ENABLED ScreencapExit(raw, FALSE)
                   /\ ~ENABLED (ScreencapExit(raw, FALSE) /\ ui'.pc # "pull")

\* a capture has failed: the handler is back in the main loop with
\* "Screenshot failed" on the display
C28_Witness ==
    /\ ui.pc = "mainloop"
    /\ Len(output_text) = 2
    /\ output_text[2] = TR("Screenshot failed: ", <<"Error: Activity class does not exist">>)

\* the properties Get Device Info queries, in the order of its loop
Props ==
    <<"persist.sys.product.model", "pwv.project", "persist.sys.sw.version",
      "ro.ufs.build.version", "ro.serialno", "ro.build.version.release",
      "ro.build.version.sdk">>

\* what a getprop query prints: a value, or nothing for an unknown property
InfoValues == PropValues \cup {""}

\* Get Device Info, its worker and the drain tick
InfoNext ==
    /\ \/ run_adb_command_device_info
       \/ \E i \in Ids, raises \in BOOLEAN : ThreadLaunch(i, raises)
       \/ \E i \in Ids, rc \in {0, 1}, v \in InfoValues, raises \in BOOLEAN :
             ThreadPropExit(i, rc, v, raises)
       \/ \E i \in Ids : ThreadTimeout(i)
       \/ \E i \in Ids : ThreadRaises(i)
       \/ \E i \in Ids : ThreadClear(i)
       \/ check_queue
    /\ nextId' <= MaxLive + 1

InfoSpec == Init /\ [][InfoNext]_vars

\* the single messages Get Device Info gives when a query fails
InfoFailures ==
    {ExceptText("device_info", exc) : exc \in {"exit_code", "timeout", "launch", "other"}}

\* the worker of invocation i goes on to the next query without a result
NextQuery(i, value) ==
    /\ workers'[i].pc = "wait"
    /\ workers'[i].k = workers[i].k + 1
    /\ workers'[i].results = Append(workers[i].results, OrNA(value))
    /\ UNCHANGED result_queue

\* C29: Get Device Info queries its seven properties one at a time in the
\* order of Props and is all-or-nothing: while the worker waits for the
\* query of Props[k+1] it holds the values of the k properties before it, an
\* empty one as "N/A"; a query that exits with 0 leads to the next query,
\* and after the seventh to the "Device Information" block of all seven
\* values; the first query that exits non-zero, times out or raises ends the
\* loop with one message and no property values.
C29_DeviceInfoAllOrNothing ==
    /\ \A i \in Ids :
          (workers[i].op = "device_info" /\ workers[i].pc = "wait") =>
             LET k == workers[i].k IN
             /\ k = Len(workers[i].results) /\ k + 1 \in DOMAIN Props
             /\ \A j \in 1..k : workers[i].results[j] \in (InfoValues \ {""}) \cup {"N/A"}
             /\ \A v \in InfoValues, raises \in BOOLEAN :
                   /\ ~ENABLED (ThreadPropExit(i, 1, v, raises)
                                /\ ~Hands(i, ExceptText("device_info", "exit_code")))
                   /\ ~ENABLED (ThreadPropExit(i, 0, v, raises)
                                /\ ~ IF k + 1 = Len(Props)
                                     THEN Hands(i, DeviceInfoText(Append(workers[i].results, OrNA(v))))
                                     ELSE IF raises
                                          THEN Hands(i, ExceptText("device_info", "launch"))
                                          ELSE NextQuery(i, v))
             /\ ~ENABLED (ThreadTimeout(i)
                          /\ ~Hands(i, ExceptText("device_info", "timeout")))
             /\ ~ENABLED (ThreadRaises(i)
                          /\ ~Hands(i, ExceptText("device_info", "other")))
    /\ \A j \in 1..Len(result_queue) :
          \/ result_queue[j].text \in InfoFailures
          \/ /\ result_queue[j].text.msg = "Device Information:"
             /\ Len(result_queue[j].text.raw) = Len(Props)
             /\ \A n \in 1..Len(Props) : result_queue[j].text.raw[n] # ""

\* all seven queries have answered, one of them with nothing
C29_Witness ==
    \E j \in 1..Len(result_queue) :
        /\ result_queue[j].text.msg = "Device Information:"
        /\ result_queue[j].text.raw[2] = "N/A"
        /\ result_queue[j].text.raw[7] = "A13"

\* the formatted command with its tool name replaced by the tool path and
\* every other piece as it is
WithToolPath(command) ==
    [j \in DOMAIN command |->
        IF j = 1 /\ command[j] = "adb" THEN adb_path ELSE command[j]]

\* C30: the command line a worker executes differs from the formatted
\* command only in the tool name, replaced by the tool path: every parameter
\* the user supplied reaches the process unchanged.  (Execute Command, whose
\* whole string is typed by the user, is left out.)
C30_ParametersReachProcessUnchanged ==
    \A i \in Ids :
        (workers[i].pc = "start" /\ workers[i].op \notin {"command", "scrcpy"}) =>
            ~ENABLED (/\ ThreadLaunch(i, FALSE)
                      /\ workers'[i].command # WithToolPath(workers[i].command))
====
